---- MODULE Spec2Model ----
(***************************************************************************)
(* Live interpreter audio session: LiveSessionManager (geminiService) and  *)
(* the LiveInterpreterView that drives it.                                 *)
(*                                                                         *)
(* The JavaScript event loop is modelled as one action per callback run:   *)
(* a click, the settling of getUserMedia, the transport's onopen, the      *)
(* resolution of the session promise, an onmessage call up to its awaited  *)
(* decode, the continuation after the decode, and a source's onended.      *)
(* currentTime holds the last reading of the output context's clock; a     *)
(* handler that reads the clock reads any value at or after it.            *)
(*                                                                         *)
(* Every connect() call k allocates the input context k, the output        *)
(* context k, (once granted) the microphone stream k and the transport     *)
(* session k, so one index names the four objects of an attempt.           *)
(* Times and durations are integers (one unit = one clock step).           *)
(***************************************************************************)
EXTENDS Integers, Sequences, FiniteSets

\* ---------------------------------------------------------------- bounds
MaxInterrupts == 1    \* messages carrying the interrupted flag in a run
MaxTime == 1          \* latest reading of an output context's clock
MaxFrames == 3        \* onaudioprocess callbacks in a run
MaxBytes == 3         \* longest byte array given to encode
MaxSamples == 2       \* longest Float32Array given to createPcmBlob
MaxPcmBytes == 6      \* longest byte array given to decodeAudioData
MaxSends == 3         \* sendMessage calls in a run
MaxKeys == 4          \* characters typed into the text field in a run

Null == 0
Attempts == {1, 2}    \* the connect() calls of a run, in call order
Arrivals == {1, 2, 3} \* the audio messages of a run, in arrival order
Durations == {1, 2}   \* chunk durations
NoAudio == 0
BadAudio == -1        \* a chunk whose bytes do not decode

VARIABLES
  \* LiveSessionManager fields
  inputContext, outputContext, mediaStream, currentSessionPromise,
  nextStartTime, sources,
  \* platform objects the fields refer to (closeReq: a close() is queued on the
  \* session promise)
  inOpen, outOpen, micLive, sess, closeReq, proc, currentTime, ended,
  \* control state of the asynchronous handlers
  pc, nConnects, pending, nArr, nInt,
  \* LiveInterpreterView
  isActive, mounted,
  \* history: what was observed, never read by the program
  started, stopCalled, sinceInt, sinceDisc, staleNst, disconnectRun,
  onErrorCalled,
  \* capture pipeline: then-callbacks registered on each session promise, the
  \* sendRealtimeInput calls made, the frames whose callback can never run
  queued, sent, lost, nFrames, transportErr,
  \* history: the audio messages whose decode threw
  failedArr,
  \* history: the audio messages whose handler was suspended at its decode when
  \* disconnect() ran, and when an interruption was processed
  heldAtDisc, heldAtInt,
  \* audio codec (audioUtils) applied to one input
  codecPc, codecIn, codecText, codecBytes, codecBuf,
  \* one call of a request/response service function
  svcPc, svcText, svcResp, svcOut,
  \* ChatProvider, and the translateText calls it awaits
  messages, isLoading, errorMessage, inFlight, nSends,
  \* ChatScreen's text controller, the transliterateText calls that
  \* _handleTransliteration awaits, and the keys typed so far
  controllerText, selection, translits, nKeys

mgrVars == <<inputContext, outputContext, mediaStream, currentSessionPromise,
             nextStartTime, sources>>
envVars == <<inOpen, outOpen, micLive, sess, closeReq, proc, currentTime, ended>>
ctlVars == <<pc, nConnects, pending, nArr, nInt>>
viewVars == <<isActive, mounted>>
schedHist == <<started, stopCalled, sinceInt, sinceDisc, staleNst>>
capVars == <<queued, sent, lost, nFrames, transportErr>>
codecVars == <<codecPc, codecIn, codecText, codecBytes, codecBuf>>
svcVars == <<svcPc, svcText, svcResp, svcOut>>
chatVars == <<messages, isLoading, errorMessage, inFlight, nSends>>
imeVars == <<controllerText, selection, translits, nKeys>>
appVars == <<chatVars, imeVars>>
pureVars == <<codecVars, svcVars, appVars>>
heldVars == <<heldAtDisc, heldAtInt>>
auxVars == <<capVars, pureVars, failedArr, heldVars>>
sessVars == <<mgrVars, envVars, ctlVars, viewVars, schedHist, disconnectRun,
              onErrorCalled, capVars, failedArr, heldVars>>
vars == <<mgrVars, envVars, ctlVars, viewVars, schedHist, disconnectRun,
          onErrorCalled, auxVars>>

\* ------------------------------------------------------- playback scheduler
\* the start time of the next chunk: Math.max(currentTime, nextStartTime)
UnclampedStart(now, nst) == nst

StartAtArrival(now, nst) == now

ClampedStart(now, nst) == IF now > nst THEN now ELSE nst

\* nextStartTime after a chunk of duration d was started at nst
AssignDuration(nst, d) == d

AdvanceStart(nst, d) == nst + d

\* nextStartTime after an interruption
KeepNextStart(nst) == nst

InterruptReset(nst) == 0

\* index in the queue of suspended handlers of the one whose decode settles
\* next: every decode settles after the same number of microtask turns, so
\* the handlers resume in the order in which they were suspended
LastQueued(q) == Len(q)

NextDecoded(q) == 1

\* the source.start calls made so far, in order
Chunks == DOMAIN started

RemoveAt(q, i) == [j \in 1..(Len(q) - 1) |-> IF j < i THEN q[j] ELSE q[j + 1]]

ManagerInit ==
  /\ inputContext = Null /\ outputContext = Null
  /\ mediaStream = Null /\ currentSessionPromise = Null
  /\ nextStartTime = 0 /\ sources = {}
  /\ inOpen = [k \in Attempts |-> FALSE]
  /\ outOpen = [k \in Attempts |-> FALSE]
  /\ micLive = [k \in Attempts |-> FALSE]
  /\ sess = [k \in Attempts |-> "none"]
  /\ closeReq = [k \in Attempts |-> FALSE]
  /\ proc = [k \in Attempts |-> <<Null, Null>>]
  /\ currentTime = 0 /\ ended = {}
  /\ pc = [k \in Attempts |-> "idle"]
  /\ nConnects = 0 /\ pending = <<>> /\ nArr = 0 /\ nInt = 0
  /\ isActive = FALSE /\ mounted = TRUE
  /\ started = <<>> /\ stopCalled = {}
  /\ sinceInt = FALSE /\ sinceDisc = FALSE /\ staleNst = 0
  /\ disconnectRun = 0
  /\ onErrorCalled = [k \in Attempts |-> FALSE]
  /\ queued = [k \in Attempts |-> <<>>]
  /\ sent = <<>> /\ lost = {} /\ nFrames = 0
  /\ transportErr = [k \in Attempts |-> FALSE]
  /\ failedArr = {} /\ heldAtDisc = {} /\ heldAtInt = {}

\* no codec input under conversion
CodecIdle ==
  /\ codecPc = "idle" /\ codecIn = <<>> /\ codecText = <<>>
  /\ codecBytes = <<>> /\ codecBuf = <<>>

\* no service call made
NoResponse == [kind |-> "none"]

NoResult == [kind |-> "none"]

ServiceIdle ==
  /\ svcPc = "idle" /\ svcText = <<>> /\ svcResp = NoResponse
  /\ svcOut = NoResult

\* the chat screen after construction
AppIdle ==
  /\ messages = <<>> /\ isLoading = FALSE /\ errorMessage = <<>>
  /\ inFlight = {} /\ nSends = 0
  /\ controllerText = <<>> /\ selection = -1 /\ translits = {} /\ nKeys = 0

Init == ManagerInit /\ CodecIdle /\ ServiceIdle /\ AppIdle

\* ------------------------------------------------------------- disconnect()
CloseSession ==
  IF currentSessionPromise # Null
  THEN /\ closeReq' = [closeReq EXCEPT ![currentSessionPromise] =
                             sess[currentSessionPromise] \in {"pending", "opened"}]
       /\ sess' = [sess EXCEPT ![currentSessionPromise] =
                     IF @ = "resolved" THEN "closed" ELSE @]
       /\ currentSessionPromise' = Null
  ELSE UNCHANGED <<closeReq, sess, currentSessionPromise>>

StopTracks ==
  IF mediaStream # Null
  THEN /\ micLive' = [micLive EXCEPT ![mediaStream] = FALSE]
       /\ mediaStream' = Null
  ELSE UNCHANGED <<micLive, mediaStream>>

CloseContexts ==
  /\ IF inputContext # Null
     THEN /\ inOpen' = [inOpen EXCEPT ![inputContext] = FALSE]
          /\ inputContext' = Null
     ELSE UNCHANGED <<inOpen, inputContext>>
  /\ IF outputContext # Null
     THEN /\ outOpen' = [outOpen EXCEPT ![outputContext] = FALSE]
          /\ outputContext' = Null
     ELSE UNCHANGED <<outOpen, outputContext>>

ClearSourcesOnly ==
  /\ sources' = {}
  /\ UNCHANGED <<nextStartTime, stopCalled>>

ResetPlayback ==
  /\ sources' = {}
  /\ nextStartTime' = 0
  /\ UNCHANGED stopCalled

disconnect ==
  /\ CloseSession
  /\ StopTracks
  /\ CloseContexts
  /\ ResetPlayback
  /\ UNCHANGED <<proc, currentTime, ended>>

\* history kept along a disconnect() call
DisconnectNoted ==
  /\ disconnectRun' = IF disconnectRun < 2 THEN disconnectRun + 1 ELSE 2
  /\ sinceDisc' = TRUE
  /\ UNCHANGED <<started, sinceInt, staleNst, onErrorCalled>>

\* ------------------------------------------------------ LiveInterpreterView
\* toggleSession, isActive branch
ToggleOffCore ==
  /\ mounted /\ isActive
  /\ disconnect
  /\ isActive' = FALSE
  /\ DisconnectNoted
  /\ UNCHANGED <<ctlVars, mounted>>

ToggleOff == ToggleOffCore /\ UNCHANGED auxVars

\* the effect cleanup on unmount; the component's state goes with it
UnmountCore ==
  /\ mounted
  /\ disconnect
  /\ mounted' = FALSE /\ isActive' = FALSE
  /\ DisconnectNoted
  /\ UNCHANGED ctlVars

Unmount == UnmountCore /\ UNCHANGED auxVars

\* the audio messages whose handler is suspended at its decode
Suspended == {pending[i].arr : i \in DOMAIN pending}

\* the same two handlers, with the suspended handlers noted
HeldAtDisconnect ==
  /\ heldAtDisc' = heldAtDisc \cup Suspended
  /\ UNCHANGED <<capVars, pureVars, failedArr, heldAtInt>>

ToggleOffHeld == ToggleOffCore /\ HeldAtDisconnect

UnmountHeld == UnmountCore /\ HeldAtDisconnect

\* ---------------------------------------------------------------- connect()
\* connect() up to its await of getUserMedia
ConnectStart(k) ==
  /\ inputContext' = k /\ inOpen' = [inOpen EXCEPT ![k] = TRUE]
  /\ outputContext' = k /\ outOpen' = [outOpen EXCEPT ![k] = TRUE]
  /\ currentTime' = 0
  /\ pc' = [pc EXCEPT ![k] = "awaitMic"]
  /\ UNCHANGED <<mediaStream, currentSessionPromise, nextStartTime, sources,
                 micLive, sess, closeReq, proc, ended>>

\* toggleSession, the branch that connects
ToggleOn ==
  /\ mounted /\ ~isActive
  /\ nConnects + 1 \in Attempts
  /\ nConnects' = nConnects + 1
  /\ ConnectStart(nConnects + 1)
  /\ disconnectRun' = 0
  /\ UNCHANGED auxVars
  /\ UNCHANGED <<pending, nArr, nInt, viewVars, schedHist, onErrorCalled>>

\* getUserMedia resolves: the rest of connect()'s try block, then the rest of
\* toggleSession
MicGranted(k) ==
  /\ pc[k] = "awaitMic"
  /\ mediaStream' = k /\ micLive' = [micLive EXCEPT ![k] = TRUE]
  /\ currentSessionPromise' = k /\ sess' = [sess EXCEPT ![k] = "pending"]
  /\ pc' = [pc EXCEPT ![k] = "done"]
  /\ isActive' = IF mounted THEN TRUE ELSE isActive
  /\ disconnectRun' = 0
  /\ UNCHANGED auxVars
  /\ UNCHANGED <<inputContext, outputContext, nextStartTime, sources, inOpen,
                 outOpen, closeReq, proc, currentTime, ended, nConnects, pending,
                 nArr, nInt, mounted, schedHist, onErrorCalled>>

\* getUserMedia rejects: connect()'s catch block, then the rest of toggleSession
MicDenied(k) ==
  /\ pc[k] = "awaitMic"
  /\ onErrorCalled' = [onErrorCalled EXCEPT ![k] = TRUE]
  /\ pc' = [pc EXCEPT ![k] = "failed"]
  /\ isActive' = IF mounted THEN TRUE ELSE isActive
  /\ disconnectRun' = 0
  /\ UNCHANGED auxVars
  /\ UNCHANGED <<mgrVars, envVars, nConnects, pending, nArr, nInt, mounted,
                 schedHist>>

\* the capture pipeline built by the onopen callback of session k
startInputStream(k) ==
  IF inputContext = Null \/ mediaStream = Null
  THEN UNCHANGED proc
  ELSE proc' = [proc EXCEPT ![k] = <<inputContext, mediaStream>>]

\* the transport's onopen callback
TransportOpen(k) ==
  /\ sess[k] = "pending"
  /\ startInputStream(k)
  /\ sess' = [sess EXCEPT ![k] = "opened"]
  /\ disconnectRun' = 0
  /\ UNCHANGED auxVars
  /\ UNCHANGED <<mgrVars, inOpen, outOpen, micLive, closeReq, currentTime, ended,
                 ctlVars, viewVars, schedHist, onErrorCalled>>

\* the blob's mimeType set by createPcmBlob
PcmMimeType == "audio/pcm;rate=16000"

\* the order in which the then-callbacks registered on one promise run once
\* it resolves: the order of registration
ReverseOrder(q) == [i \in 1..Len(q) |-> q[Len(q) + 1 - i]]

ThenOrder(q) == q

\* session.sendRealtimeInput({ media: pcmBlob }) on session k
SendRealtimeInput(k, blob) ==
  [frame |-> blob.frame, mimeType |-> blob.mimeType, session |-> k,
   afterErr |-> blob.afterErr, held |-> blob.held, pipeline |-> blob.pipeline]

SendAll(k, q) == [i \in 1..Len(q) |-> SendRealtimeInput(k, q[i])]

\* the session promise resolves: the callbacks registered on it run, the
\* sends of the frames held on it first, a close() queued by disconnect() last
SessionResolve(k) ==
  /\ sess[k] = "opened"
  /\ sess' = [sess EXCEPT ![k] = IF closeReq[k] THEN "closed" ELSE "resolved"]
  /\ closeReq' = [closeReq EXCEPT ![k] = FALSE]
  /\ sent' = sent \o SendAll(k, ThenOrder(queued[k]))
  /\ queued' = [queued EXCEPT ![k] = <<>>]
  /\ disconnectRun' = 0
  /\ UNCHANGED <<lost, nFrames, transportErr, pureVars, failedArr, heldVars>>
  /\ UNCHANGED <<mgrVars, inOpen, outOpen, micLive, proc, currentTime,
                 ended, ctlVars, viewVars, schedHist, onErrorCalled>>

\* the promise returned by ai.live.connect rejects. connect() did not await
\* it and registered no rejection handler: the callbacks registered with
\* then() never run, and nothing else in the manager or the view changes.
TransportReject(k) ==
  /\ sess[k] = "pending"
  /\ sess' = [sess EXCEPT ![k] = "rejected"]
  /\ closeReq' = [closeReq EXCEPT ![k] = FALSE]
  /\ lost' = lost \cup {queued[k][i].frame : i \in DOMAIN queued[k]}
  /\ queued' = [queued EXCEPT ![k] = <<>>]
  /\ disconnectRun' = 0
  /\ UNCHANGED <<sent, nFrames, transportErr, pureVars, failedArr, heldVars>>
  /\ UNCHANGED <<mgrVars, inOpen, outOpen, micLive, proc, currentTime,
                 ended, ctlVars, viewVars, schedHist, onErrorCalled>>

\* the transport's onerror callback on an established session, and the view's
\* onError callback that it calls
TransportError(k) ==
  /\ sess[k] = "resolved"
  /\ ~transportErr[k]
  /\ transportErr' = [transportErr EXCEPT ![k] = TRUE]
  /\ onErrorCalled' = [onErrorCalled EXCEPT ![k] = TRUE]
  /\ isActive' = IF mounted THEN FALSE ELSE isActive
  /\ disconnectRun' = 0
  /\ UNCHANGED <<queued, sent, lost, nFrames, pureVars, failedArr, heldVars>>
  /\ UNCHANGED <<mgrVars, envVars, ctlVars, mounted, schedHist>>

\* the onaudioprocess callback of the processor built by session k's onopen,
\* with the then-callback it registers run at once (a microtask) when the
\* promise is already resolved
CaptureFrame(k) ==
  /\ proc[k] # <<Null, Null>>
  /\ inOpen[proc[k][1]]
  /\ nFrames < MaxFrames
  /\ nFrames' = nFrames + 1
  /\ LET p == currentSessionPromise
         pcmBlob == [frame |-> nFrames + 1, mimeType |-> PcmMimeType,
                     pipeline |-> k,
                     afterErr |-> IF p = Null THEN FALSE ELSE transportErr[p],
                     held |-> IF p = Null THEN FALSE
                              ELSE sess[p] \in {"pending", "opened"}]
     IN IF p = Null
        THEN UNCHANGED <<queued, sent, lost>>
        ELSE IF sess[p] \in {"pending", "opened"}
        THEN /\ queued' = [queued EXCEPT ![p] = Append(@, pcmBlob)]
             /\ UNCHANGED <<sent, lost>>
        ELSE IF sess[p] = "rejected"
        THEN /\ lost' = lost \cup {pcmBlob.frame}
             /\ UNCHANGED <<queued, sent>>
        ELSE /\ sent' = Append(sent, SendRealtimeInput(p, pcmBlob))
             /\ UNCHANGED <<queued, lost>>
  /\ disconnectRun' = 0
  /\ UNCHANGED <<transportErr, pureVars, failedArr, heldVars>>
  /\ UNCHANGED <<mgrVars, envVars, ctlVars, viewVars, schedHist, onErrorCalled>>

\* ----------------------------------------------------------- handleMessage
\* the interrupted branch, applied to the sources set src and the value nst
Interrupted(src, nst) ==
  /\ stopCalled' = stopCalled \cup src
  /\ sources' = {}
  /\ nextStartTime' = InterruptReset(nst)
  /\ sinceInt' = TRUE
  /\ staleNst' = nst

\* handleMessage up to the awaited decode (a message with audio), or to its
\* end (a message with the interrupted flag alone)
OnMessageCore(k, d, intr) ==
  /\ sess[k] = "resolved"
  /\ d # NoAudio \/ intr
  /\ d # NoAudio => nArr + 1 \in Arrivals
  /\ intr => nInt < MaxInterrupts
  /\ disconnectRun' = 0
  /\ nInt' = IF intr /\ outputContext # Null THEN nInt + 1 ELSE nInt
  /\ IF outputContext = Null
     THEN UNCHANGED <<mgrVars, pending, nArr, schedHist>>
     ELSE IF d # NoAudio
     THEN /\ pending' = Append(pending, [dur |-> d, intr |-> intr, arr |-> nArr + 1])
          /\ nArr' = nArr + 1
          /\ UNCHANGED <<mgrVars, schedHist>>
     ELSE /\ Interrupted(sources, nextStartTime)
          /\ UNCHANGED <<inputContext, outputContext, mediaStream,
                         currentSessionPromise, pending, nArr, started, sinceDisc>>
  /\ UNCHANGED <<envVars, pc, nConnects, viewVars, onErrorCalled>>

OnMessage(k, d, intr) == OnMessageCore(k, d, intr) /\ UNCHANGED auxVars

\* the same handler, with the handlers noted that are suspended while it
\* runs the interrupted branch
OnMessageHeld(k, d, intr) ==
  /\ OnMessageCore(k, d, intr)
  /\ heldAtInt' = IF outputContext # Null /\ d = NoAudio
                  THEN heldAtInt \cup Suspended ELSE heldAtInt
  /\ UNCHANGED <<capVars, pureVars, failedArr, heldAtDisc>>

\* decodeAudioData throws on the bytes of message m (an odd byte count makes
\* new Int16Array(data.buffer) throw); the await rethrows into the catch block
NoDecodeThrows(m) == FALSE

DecodeThrows(m) == m.dur = BadAudio

\* the decode settles: the rest of handleMessage's try block (or its catch
\* block, which only logs), then its interrupted branch. t is the reading of outputContext.currentTime, any time
\* at or after the last one; without an output context the read throws into
\* the catch block and nothing is started.
DecodeDone(t) ==
  /\ pending # <<>>
  /\ t >= currentTime
  /\ outputContext = Null \/ DecodeThrows(pending[NextDecoded(pending)])
       => t = currentTime
  /\ LET i == NextDecoded(pending)
         m == pending[i]
         sched == outputContext # Null /\ ~DecodeThrows(m)
         start == ClampedStart(t, nextStartTime)
         src == Len(started) + 1
         nst1 == IF sched THEN AdvanceStart(start, m.dur) ELSE nextStartTime
         src1 == IF sched THEN sources \cup {src} ELSE sources
     IN /\ pending' = RemoveAt(pending, i)
        /\ started' = IF sched
             THEN Append(started,
                    [arr |-> m.arr, start |-> start, now |-> t,
                     dur |-> m.dur, nstBefore |-> nextStartTime,
                     afterInt |-> sinceInt, afterDisc |-> sinceDisc,
                     stale |-> staleNst])
             ELSE started
        /\ failedArr' = IF DecodeThrows(m) THEN failedArr \cup {m.arr}
                                            ELSE failedArr
        /\ sinceDisc' = (sinceDisc /\ ~sched)
        /\ IF m.intr
           THEN Interrupted(src1, nst1)
           ELSE /\ sources' = src1
                /\ nextStartTime' = nst1
                /\ sinceInt' = (sinceInt /\ ~sched)
                /\ staleNst' = IF sched THEN 0 ELSE staleNst
                /\ UNCHANGED stopCalled
  /\ currentTime' = t
  /\ disconnectRun' = 0
  /\ UNCHANGED <<capVars, pureVars, heldVars>>
  /\ UNCHANGED <<inputContext, outputContext, mediaStream, currentSessionPromise,
                 inOpen, outOpen, micLive, sess, closeReq, proc, ended, pc,
                 nConnects, nArr, nInt, viewVars, onErrorCalled>>

EndTime(s) == started[s].start + started[s].dur

\* an onended callback that forgets to delete its source
EndedKeepsSource(s) ==
  /\ s \in Chunks /\ s \in sources /\ s \notin ended
  /\ EndTime(s) <= MaxTime
  /\ currentTime' = IF currentTime >= EndTime(s) THEN currentTime ELSE EndTime(s)
  /\ ended' = ended \cup {s}
  /\ disconnectRun' = 0
  /\ UNCHANGED auxVars
  /\ UNCHANGED <<mgrVars, inOpen, outOpen, micLive, sess, closeReq, proc,
                 ctlVars, viewVars, schedHist, onErrorCalled>>

\* a source's onended callback, when the clock reaches the end of its buffer.
\* The onended of a source that an interruption or disconnect() has already
\* removed from sources deletes nothing: that call is a step that changes no
\* variable.
SourceEnded(s) ==
  /\ s \in Chunks /\ s \in sources /\ s \notin ended
  /\ EndTime(s) <= MaxTime
  /\ currentTime' = IF currentTime >= EndTime(s) THEN currentTime ELSE EndTime(s)
  /\ ended' = ended \cup {s}
  /\ sources' = sources \ {s}
  /\ disconnectRun' = 0
  /\ UNCHANGED auxVars
  /\ UNCHANGED <<inputContext, outputContext, mediaStream, currentSessionPromise,
                 nextStartTime, inOpen, outOpen, micLive, sess, closeReq, proc,
                 ctlVars, viewVars, schedHist, onErrorCalled>>

Next ==
  \/ ToggleOn
  \/ ToggleOff
  \/ Unmount
  \/ \E k \in Attempts : MicGranted(k)
  \/ \E k \in Attempts : MicDenied(k)
  \/ \E k \in Attempts : TransportOpen(k)
  \/ \E k \in Attempts : SessionResolve(k)
  \/ \E k \in Attempts, d \in Durations \cup {NoAudio}, intr \in BOOLEAN :
       OnMessage(k, d, intr)
  \/ \E t \in 0..MaxTime : DecodeDone(t)
  \/ \E s \in Arrivals : SourceEnded(s)

Spec == Init /\ [][Next]_vars

\* the session's life with its capture pipeline and the transport's failures,
\* without incoming messages
CaptureNext ==
  \/ ToggleOn
  \/ ToggleOff
  \/ Unmount
  \/ \E k \in Attempts : MicGranted(k)
  \/ \E k \in Attempts : MicDenied(k)
  \/ \E k \in Attempts : TransportOpen(k)
  \/ \E k \in Attempts : SessionResolve(k)
  \/ \E k \in Attempts : TransportReject(k)
  \/ \E k \in Attempts : TransportError(k)
  \/ \E k \in Attempts : CaptureFrame(k)

CaptureSpec == Init /\ [][CaptureNext]_vars

\* one session receiving messages, some of whose audio does not decode
DecodeNext ==
  \/ nConnects = 0 /\ ToggleOn
  \/ ToggleOff
  \/ Unmount
  \/ \E k \in Attempts : MicGranted(k)
  \/ \E k \in Attempts : TransportOpen(k)
  \/ \E k \in Attempts : SessionResolve(k)
  \/ \E k \in Attempts, d \in Durations \cup {NoAudio, BadAudio},
        intr \in BOOLEAN : OnMessage(k, d, intr)
  \/ \E t \in 0..MaxTime : DecodeDone(t)
  \/ \E s \in Arrivals : SourceEnded(s)

DecodeSpec == Init /\ [][DecodeNext]_vars

\* the session with the handlers suspended at a decode noted when
\* disconnect() or an interruption overtakes them
CancelNext ==
  \/ ToggleOn
  \/ ToggleOffHeld
  \/ UnmountHeld
  \/ \E k \in Attempts : MicGranted(k)
  \/ \E k \in Attempts : TransportOpen(k)
  \/ \E k \in Attempts : SessionResolve(k)
  \/ \E k \in Attempts, d \in Durations \cup {NoAudio}, intr \in BOOLEAN :
       OnMessageHeld(k, d, intr)
  \/ \E t \in 0..MaxTime : DecodeDone(t)

CancelSpec == Init /\ [][CancelNext]_vars

\* the onended callback of a source that an interruption or disconnect() has
\* already removed from sources: sources.delete(source) of an absent element
LateEnded(s) ==
  /\ s \in Chunks /\ s \notin sources /\ s \notin ended
  /\ ended' = ended \cup {s}
  /\ sources' = sources \ {s}
  /\ disconnectRun' = 0
  /\ UNCHANGED auxVars
  /\ UNCHANGED <<inputContext, outputContext, mediaStream, currentSessionPromise,
                 nextStartTime, inOpen, outOpen, micLive, sess, closeReq, proc,
                 currentTime, ctlVars, viewVars, schedHist, onErrorCalled>>

\* one session of a view that stays mounted, with every onended callback
SetNext ==
  \/ nConnects = 0 /\ ToggleOn
  \/ ToggleOff
  \/ \E k \in Attempts : MicGranted(k)
  \/ \E k \in Attempts : TransportOpen(k)
  \/ \E k \in Attempts : SessionResolve(k)
  \/ \E k \in Attempts, d \in Durations \cup {NoAudio}, intr \in BOOLEAN :
       OnMessage(k, d, intr)
  \/ \E t \in 0..MaxTime : DecodeDone(t)
  \/ \E s \in Arrivals : SourceEnded(s)
  \/ \E s \in Arrivals : LateEnded(s)

SetSpec == Init /\ [][SetNext]_vars

\* ------------------------------------- the manager of widgets/mic_button.dart
\* The second LiveSessionManager: its session field is held in
\* currentSessionPromise, its stream in mediaStream. It clamps nextStartTime
\* before the awaited decode, has no interrupted branch, and its disconnect()
\* neither clears the fields nor resets nextStartTime.
VariantRest == <<closeReq, nInt, viewVars, sinceInt, sinceDisc, staleNst,
                 auxVars>>

\* connect() up to the await of getUserMedia
VConnect ==
  /\ nConnects + 1 \in Attempts
  /\ nConnects' = nConnects + 1
  /\ inputContext' = nConnects + 1
  /\ inOpen' = [inOpen EXCEPT ![nConnects + 1] = TRUE]
  /\ outputContext' = nConnects + 1
  /\ outOpen' = [outOpen EXCEPT ![nConnects + 1] = TRUE]
  /\ currentTime' = 0
  /\ pc' = [pc EXCEPT ![nConnects + 1] = "awaitMic"]
  /\ disconnectRun' = 0
  /\ UNCHANGED <<mediaStream, currentSessionPromise, nextStartTime, sources,
                 micLive, sess, proc, ended, pending, nArr, started,
                 stopCalled, onErrorCalled, VariantRest>>

\* getUserMedia resolves: the stream is stored, ai.live.connect is called and
\* connect() awaits the session promise
VMicGranted(k) ==
  /\ pc[k] = "awaitMic"
  /\ mediaStream' = k /\ micLive' = [micLive EXCEPT ![k] = TRUE]
  /\ sess' = [sess EXCEPT ![k] = "pending"]
  /\ pc' = [pc EXCEPT ![k] = "awaitSession"]
  /\ disconnectRun' = 0
  /\ UNCHANGED <<inputContext, outputContext, currentSessionPromise,
                 nextStartTime, sources, inOpen, outOpen, proc, currentTime,
                 ended, nConnects, pending, nArr, started, stopCalled,
                 onErrorCalled, VariantRest>>

\* getUserMedia rejects: the catch block reports through onError
VMicDenied(k) ==
  /\ pc[k] = "awaitMic"
  /\ pc' = [pc EXCEPT ![k] = "failed"]
  /\ onErrorCalled' = [onErrorCalled EXCEPT ![k] = TRUE]
  /\ disconnectRun' = 0
  /\ UNCHANGED <<mgrVars, envVars, nConnects, pending, nArr, started,
                 stopCalled, VariantRest>>

\* the transport's onopen callback builds the capture pipeline
VTransportOpen(k) ==
  /\ sess[k] = "pending"
  /\ sess' = [sess EXCEPT ![k] = "opened"]
  /\ proc' = [proc EXCEPT ![k] = <<inputContext, mediaStream>>]
  /\ disconnectRun' = 0
  /\ UNCHANGED <<mgrVars, inOpen, outOpen, micLive, currentTime, ended, pc,
                 nConnects, pending, nArr, started, stopCalled, onErrorCalled,
                 VariantRest>>

\* the session promise resolves: this.session = await sessionPromise
VSessionResolve(k) ==
  /\ sess[k] = "opened" /\ pc[k] = "awaitSession"
  /\ sess' = [sess EXCEPT ![k] = "resolved"]
  /\ currentSessionPromise' = k
  /\ pc' = [pc EXCEPT ![k] = "done"]
  /\ disconnectRun' = 0
  /\ UNCHANGED <<inputContext, outputContext, mediaStream, nextStartTime,
                 sources, inOpen, outOpen, micLive, proc, currentTime, ended,
                 nConnects, pending, nArr, started, stopCalled, onErrorCalled,
                 VariantRest>>

\* onmessage with audio of duration d, up to the await: the clamp comes first
VOnMessage(k, d) ==
  /\ sess[k] \in {"opened", "resolved"}
  /\ nArr + 1 \in Arrivals
  /\ nextStartTime' = ClampedStart(currentTime, nextStartTime)
  /\ pending' = Append(pending, [dur |-> d, intr |-> FALSE, arr |-> nArr + 1])
  /\ nArr' = nArr + 1
  /\ disconnectRun' = 0
  /\ UNCHANGED <<inputContext, outputContext, mediaStream,
                 currentSessionPromise, sources, envVars, pc, nConnects,
                 started, stopCalled, onErrorCalled, VariantRest>>

\* the decode completes when the output clock shows t: the rest of onmessage.
\* The clock of a closed context no longer advances.
VDecodeDone(t) ==
  /\ pending # <<>>
  /\ t >= currentTime
  /\ ~outOpen[outputContext] => t = currentTime
  /\ LET m == pending[NextDecoded(pending)]
         src == Len(started) + 1
     IN /\ pending' = RemoveAt(pending, NextDecoded(pending))
        /\ started' = Append(started,
                        [arr |-> m.arr, start |-> nextStartTime, now |-> t,
                         dur |-> m.dur, nstBefore |-> nextStartTime,
                         afterInt |-> FALSE, afterDisc |-> FALSE, stale |-> 0])
        /\ nextStartTime' = AdvanceStart(nextStartTime, m.dur)
        /\ sources' = sources \cup {src}
  /\ currentTime' = t
  /\ disconnectRun' = 0
  /\ UNCHANGED <<inputContext, outputContext, mediaStream,
                 currentSessionPromise, inOpen, outOpen, micLive, sess, proc,
                 ended, pc, nConnects, nArr, stopCalled, onErrorCalled,
                 VariantRest>>

\* a source's onended callback: after stop(), or when the clock reaches the
\* end of its buffer
VSourceEnded(s) ==
  /\ s \in Chunks /\ s \in sources /\ s \notin ended
  /\ s \notin stopCalled => EndTime(s) <= MaxTime /\ outOpen[outputContext]
  /\ currentTime' = IF s \in stopCalled \/ currentTime >= EndTime(s)
                    THEN currentTime ELSE EndTime(s)
  /\ ended' = ended \cup {s}
  /\ sources' = sources \ {s}
  /\ disconnectRun' = 0
  /\ UNCHANGED <<inputContext, outputContext, mediaStream,
                 currentSessionPromise, nextStartTime, inOpen, outOpen,
                 micLive, sess, proc, pc, nConnects, pending, nArr, started,
                 stopCalled, onErrorCalled, VariantRest>>

\* disconnect(): closes and stops, keeps every field. Before the first
\* connect() every field is null and the call does nothing.
VDisconnect ==
  /\ nConnects > 0
  /\ disconnectRun' = 1
  /\ sess' = IF currentSessionPromise # Null
             THEN [sess EXCEPT ![currentSessionPromise] = "closed"] ELSE sess
  /\ micLive' = IF mediaStream # Null
                THEN [micLive EXCEPT ![mediaStream] = FALSE] ELSE micLive
  /\ inOpen' = [inOpen EXCEPT ![inputContext] = FALSE]
  /\ outOpen' = [outOpen EXCEPT ![outputContext] = FALSE]
  /\ stopCalled' = stopCalled \cup sources
  /\ UNCHANGED <<mgrVars, proc, currentTime, ended, pc, nConnects, pending,
                 nArr, started, onErrorCalled, VariantRest>>

VariantNext ==
  \/ VConnect
  \/ VDisconnect
  \/ \E k \in Attempts : VMicGranted(k)
  \/ \E k \in Attempts : VMicDenied(k)
  \/ \E k \in Attempts : VTransportOpen(k)
  \/ \E k \in Attempts : VSessionResolve(k)
  \/ \E k \in Attempts, d \in Durations : VOnMessage(k, d)
  \/ \E t \in 0..MaxTime : VDecodeDone(t)
  \/ \E s \in Arrivals : VSourceEnded(s)

VariantSpec == Init /\ [][VariantNext]_vars

\* ------------------------------------------------------------------ claims
\* started[i] records the i-th call of source.start: arr, the arrival number
\* of its message; start, the time passed to start; now, currentTime at the
\* call; dur, the buffer's duration; nstBefore, nextStartTime when the decode
\* settled; afterInt / afterDisc, whether an interruption / a disconnect() ran
\* since the previous call; stale, nextStartTime as the last such interruption
\* found it.
NoDisconnectBetween(i, j) == \A m \in (i + 1)..j : ~started[m].afterDisc

NoResetBetween(i, j) ==
  \A m \in (i + 1)..j : ~started[m].afterDisc /\ ~started[m].afterInt

\* C1: every chunk is started at a time that is at or after the output
\* clock's currentTime at the moment of the source.start call.
C1_StartNotBeforeClock ==
  \A i \in Chunks : started[i].start >= started[i].now

\* a chunk started after an interruption, the clock having passed nextStartTime
C1_Witness ==
  \E i \in Chunks :
    /\ started[i].afterInt
    /\ started[i].now > started[i].nstBefore
    /\ started[i].start >= started[i].now

\* C2 (as stated): within one session the start times are non-decreasing in
\* scheduling order.
C2_StartsNonDecreasing ==
  \A i, j \in Chunks :
    (i < j /\ NoDisconnectBetween(i, j)) => started[i].start <= started[j].start

\* C2 (amended): the start times are non-decreasing in scheduling order as
\* long as no interruption and no disconnect() has reset nextStartTime
\* between the two chunks.
C2_StartsNonDecreasingBetweenResets ==
  \A i, j \in Chunks :
    (i < j /\ NoResetBetween(i, j)) => started[i].start <= started[j].start

\* two chunks with no reset between them, the second delivered later
C2_Witness ==
  \E i, j \in Chunks :
    /\ i < j /\ NoResetBetween(i, j)
    /\ started[j].now > started[i].now
    /\ started[i].start <= started[j].start

\* C3 (as stated): a chunk started while the clock has not passed
\* nextStartTime starts at the previous chunk's start plus its duration.
C3_Gapless ==
  \A i \in Chunks :
    (i > 1 /\ ~started[i].afterDisc /\ started[i].now <= started[i].nstBefore)
      => started[i].start = started[i - 1].start + started[i - 1].dur

\* C3 (amended): a chunk started while the clock has not passed
\* nextStartTime, no interruption having reset nextStartTime since the
\* previous chunk, starts at the previous chunk's start plus its duration.
C3_GaplessBetweenResets ==
  \A i \in Chunks :
    (i > 1 /\ NoResetBetween(i - 1, i) /\ started[i].now <= started[i].nstBefore)
      => started[i].start = started[i - 1].start + started[i - 1].dur

\* the second chunk arrives later than the first and still starts gaplessly
C3_Witness ==
  \E i \in Chunks :
    /\ i > 1 /\ NoResetBetween(i - 1, i)
    /\ started[i].now > started[i - 1].now
    /\ started[i].now <= started[i].nstBefore
    /\ started[i].start = started[i - 1].start + started[i - 1].dur

\* C4: once an interruption has been processed the sources set is empty
\* until the next chunk is started, and that chunk starts at or after the
\* clock's current time and not at the stale nextStartTime the interruption
\* found.
C4_InterruptionClears ==
  /\ sinceInt => sources = {}
  /\ \A i \in Chunks :
       started[i].afterInt =>
         /\ started[i].start >= started[i].now
         /\ started[i].stale > started[i].now => started[i].start < started[i].stale

\* a chunk started after an interruption that found nextStartTime ahead of
\* the clock, the earlier chunk having been stopped
C4_Witness ==
  \E i \in Chunks :
    /\ i > 1 /\ started[i].afterInt
    /\ started[i].stale > started[i].now
    /\ (i - 1) \in stopCalled

\* C5: while the manager holds an output context, nextStartTime never
\* decreases.
C5_NextStartTimeMonotone ==
  [][(outputContext # Null /\ outputContext' # Null)
       => nextStartTime' >= nextStartTime]_vars

\* C6 (as stated): within one session a chunk whose message arrived earlier
\* is started at a time that is at most that of a chunk that arrived later.
C6_ArrivalOrder ==
  \A i, j \in Chunks :
    (/\ started[i].arr < started[j].arr
     /\ IF i < j THEN NoDisconnectBetween(i, j) ELSE NoDisconnectBetween(j, i))
      => started[i].start <= started[j].start

\* C6 (amended): a chunk whose message arrived earlier is started at a time
\* that is at most that of a chunk that arrived later, as long as no
\* interruption and no disconnect() has reset nextStartTime between the two.
C6_ArrivalOrderBetweenResets ==
  \A i, j \in Chunks :
    (/\ started[i].arr < started[j].arr
     /\ IF i < j THEN NoResetBetween(i, j) ELSE NoResetBetween(j, i))
      => started[i].start <= started[j].start

\* two chunks started in arrival order while the handler of a third message
\* is suspended at its decode
C6_Witness ==
  \E i, j \in Chunks :
    /\ started[i].arr < started[j].arr
    /\ i < j /\ NoResetBetween(i, j)
    /\ started[i].start <= started[j].start
    /\ pending # <<>> /\ pending[1].arr > started[j].arr

Live(k) == sess[k] \in {"pending", "opened", "resolved"}

\* C7: at most one input context, one output context, one microphone
\* stream, one capture pipeline and one transport session are live at a time.
C7_SingleSession ==
  /\ Cardinality({k \in Attempts : inOpen[k]}) <= 1
  /\ Cardinality({k \in Attempts : outOpen[k]}) <= 1
  /\ Cardinality({k \in Attempts : micLive[k]}) <= 1
  /\ Cardinality({k \in Attempts : Live(k)}) <= 1
  /\ Cardinality({k \in Attempts : proc[k][1] # Null /\ inOpen[proc[k][1]]
                                     /\ micLive[proc[k][2]]}) <= 1

Released ==
  /\ currentSessionPromise = Null /\ mediaStream = Null
  /\ inputContext = Null /\ outputContext = Null
  /\ sources = {} /\ nextStartTime = 0

\* what the manager held before the step is closed after it
HeldClosed ==
  /\ currentSessionPromise # Null =>
       (sess'[currentSessionPromise] = "closed" \/ closeReq'[currentSessionPromise])
  /\ mediaStream # Null => ~micLive'[mediaStream]
  /\ inputContext # Null => ~inOpen'[inputContext]
  /\ outputContext # Null => ~outOpen'[outputContext]

\* C8: after every disconnect() the manager's session handle, microphone
\* stream and contexts are released, the sources set is empty and
\* nextStartTime is 0; a disconnect() that follows another changes nothing.
C8_DisconnectIdempotent ==
  [][disconnectRun' = disconnectRun + 1 =>
       /\ Released'
       /\ HeldClosed
       /\ disconnectRun >= 1 => UNCHANGED <<mgrVars, envVars>>]_vars

\* disconnect() twice in a row on a manager that had connected
C8_Witness ==
  /\ disconnectRun = 2
  /\ \E k \in Attempts : pc[k] = "done"
  /\ Released

\* C9: after disconnect() the sources set is empty and stop() has been
\* called on every source that had not ended.
C9_DisconnectStopsSources ==
  disconnectRun >= 1 =>
    /\ sources = {}
    /\ \A s \in Chunks : s \in stopCalled \/ s \in ended

\* C10: when connect() returns after getUserMedia rejected, onError has been
\* called and the contexts that connect() allocated are closed; no
\* microphone stream or transport session exists for it.
C10_DeniedMicReleasesContexts ==
  \A k \in Attempts :
    pc[k] = "failed" =>
      /\ onErrorCalled[k]
      /\ ~inOpen[k] /\ ~outOpen[k]
      /\ ~micLive[k] /\ sess[k] = "none"

\* ---------------------------------------------------------------- audioUtils
\* A base64 text is the sequence of its symbols: 0..63 for the alphabet, Pad
\* for '='. A binary string is the sequence of its UTF-16 code units.
Pad == 64
Int16Scale == 32768

\* A Float32 sample s is held as the integer s * Int16Scale * SubSteps, so
\* that samples between two 16-bit steps exist
SubSteps == 4

ByteVals == {0, 1, 85, 127, 128, 170, 254, 255}
SampleVals ==
  {-131072, -131071, -131069, -98304, -65537, -6, -4, -3, -1, 0, 1, 3, 4, 5,
   65535, 98304, 131064, 131067, 131068, 131071, 131072}
NumChannels == 1

SeqsUpTo(S, n) == UNION {[1..k -> S] : k \in 0..n}

\* String.fromCharCode(b): the code unit b
FromCharCode7(b) == b % 128

FromCharCode(b) == b % 65536

RECURSIVE btoa(_)
btoa(str) ==
  IF Len(str) = 0 THEN <<>>
  ELSE IF Len(str) = 1
  THEN <<str[1] \div 4, (str[1] % 4) * 16, Pad, Pad>>
  ELSE IF Len(str) = 2
  THEN <<str[1] \div 4, (str[1] % 4) * 16 + str[2] \div 16,
         (str[2] % 16) * 4, Pad>>
  ELSE <<str[1] \div 4, (str[1] % 4) * 16 + str[2] \div 16,
         (str[2] % 16) * 4 + str[3] \div 64, str[3] % 64>>
       \o btoa(SubSeq(str, 4, Len(str)))

RECURSIVE atob(_)
atob(base64) ==
  IF Len(base64) = 0 THEN <<>>
  ELSE LET c == SubSeq(base64, 1, 4)
           b1 == c[1] * 4 + c[2] \div 16
           b2 == (c[2] % 16) * 16 + c[3] \div 4
           b3 == (c[3] % 4) * 64 + c[4]
       IN (IF c[3] = Pad THEN <<b1>>
           ELSE IF c[4] = Pad THEN <<b1, b2>> ELSE <<b1, b2, b3>>)
          \o atob(SubSeq(base64, 5, Len(base64)))

\* bytes[i] = binaryString.charCodeAt(i) into a Uint8Array
decode(base64) ==
  LET binaryString == atob(base64)
  IN [i \in 1..Len(binaryString) |-> binaryString[i] % 256]

encode(bytes) == btoa([i \in 1..Len(bytes) |-> FromCharCode(bytes[i])])

\* data[i] * 32768 stored into an Int16Array element: truncated toward zero,
\* then reduced modulo 2^16 into -32768..32767
ToInt16(m) ==
  LET x == IF m >= 0 THEN m \div SubSteps ELSE -((-m) \div SubSteps)
  IN ((x + Int16Scale) % (2 * Int16Scale)) - Int16Scale

\* the two bytes of an Int16Array element in its buffer (little-endian)
LowByteOnly(q) == <<q % 256>>

Int16Bytes(q) == <<(q % (2 * Int16Scale)) % 256, (q % (2 * Int16Scale)) \div 256>>

RECURSIVE Int16Buffer(_)
Int16Buffer(int16) ==
  IF Len(int16) = 0 THEN <<>>
  ELSE Int16Bytes(Head(int16)) \o Int16Buffer(Tail(int16))

createPcmBlob(data) ==
  LET int16 == [i \in 1..Len(data) |-> ToInt16(data[i])]
  IN [data |-> encode(Int16Buffer(int16)), mimeType |-> PcmMimeType]

\* new Int16Array(data.buffer) throws on an odd byte count, and
\* ctx.createBuffer on a length of zero frames
DecodeAudioThrows(data, numChannels) ==
  \/ Len(data) % 2 # 0
  \/ (Len(data) \div 2) \div numChannels = 0

\* the channel data of the AudioBuffer, each value held as value * Int16Scale
decodeAudioData(data, numChannels) ==
  LET dataInt16 ==
        [i \in 1..(Len(data) \div 2) |->
           LET u == data[2 * i - 1] + 256 * data[2 * i]
           IN IF u >= Int16Scale THEN u - 2 * Int16Scale ELSE u]
      frameCount == Len(dataInt16) \div numChannels
  IN [i \in 1..frameCount |-> dataInt16[(i - 1) * numChannels + 1]]

CodecInputs ==
  {[kind |-> "bytes", val |-> b] : b \in SeqsUpTo(ByteVals, MaxBytes)}
  \cup {[kind |-> "bytes", val |-> <<b>>] : b \in 0..255}
  \cup {[kind |-> "samples", val |-> d] : d \in SeqsUpTo(SampleVals, MaxSamples)}

CodecInit ==
  /\ ManagerInit /\ ServiceIdle /\ AppIdle
  /\ codecPc = "input" /\ codecIn \in CodecInputs
  /\ codecText = <<>> /\ codecBytes = <<>> /\ codecBuf = <<>>

Encode ==
  /\ codecPc = "input" /\ codecIn.kind = "bytes"
  /\ codecText' = encode(codecIn.val)
  /\ codecPc' = "encoded"
  /\ UNCHANGED <<codecIn, codecBytes, codecBuf, sessVars, svcVars, appVars>>

CreatePcmBlob ==
  /\ codecPc = "input" /\ codecIn.kind = "samples"
  /\ codecText' = createPcmBlob(codecIn.val).data
  /\ codecPc' = "encoded"
  /\ UNCHANGED <<codecIn, codecBytes, codecBuf, sessVars, svcVars, appVars>>

Base64ToUint8Array ==
  /\ codecPc = "encoded"
  /\ codecBytes' = decode(codecText)
  /\ codecPc' = "bytes"
  /\ UNCHANGED <<codecIn, codecText, codecBuf, sessVars, svcVars, appVars>>

DecodeAudioData ==
  /\ codecPc = "bytes"
  /\ IF DecodeAudioThrows(codecBytes, NumChannels)
     THEN codecPc' = "threw" /\ UNCHANGED codecBuf
     ELSE /\ codecBuf' = decodeAudioData(codecBytes, NumChannels)
          /\ codecPc' = "decoded"
  /\ UNCHANGED <<codecIn, codecText, codecBytes, sessVars, svcVars, appVars>>

CodecNext == Encode \/ CreatePcmBlob \/ Base64ToUint8Array \/ DecodeAudioData

CodecSpec == CodecInit /\ [][CodecNext]_vars

\* decodeAudioData with its numChannels parameter: new Int16Array(data.buffer)
Int16View(data) ==
  [i \in 1..(Len(data) \div 2) |->
     LET u == data[2 * i - 1] + 256 * data[2 * i]
     IN IF u >= Int16Scale THEN u - 2 * Int16Scale ELSE u]

\* createBuffer takes its length argument as an unsigned long: the quotient
\* dataInt16.length / numChannels loses its fraction
BufferLength(data, numChannels) == Len(Int16View(data)) \div numChannels

\* new Int16Array throws on an odd byte length, createBuffer on a length of 0
DecodeChannelsThrows(data, numChannels) ==
  \/ Len(data) % 2 # 0
  \/ BufferLength(data, numChannels) = 0

\* the channels of the AudioBuffer, each value held as value * Int16Scale.
\* The loops run i up to the unrounded frameCount; a write to channelData[i]
\* beyond the buffer's length is dropped.
decodeAudioChannels(data, numChannels) ==
  [channel \in 1..numChannels |->
     [i \in 1..BufferLength(data, numChannels) |->
        Int16View(data)[(i - 1) * numChannels + channel]]]

ChannelCounts == {1, 2}

PcmByteVals == {0, 1}

PcmInputs ==
  {[kind |-> "pcm", val |-> b, numChannels |-> n] :
     b \in SeqsUpTo(PcmByteVals, MaxPcmBytes), n \in ChannelCounts}

ChannelInit ==
  /\ ManagerInit /\ ServiceIdle /\ AppIdle
  /\ codecPc = "pcm" /\ codecIn \in PcmInputs
  /\ codecText = <<>> /\ codecBytes = <<>> /\ codecBuf = <<>>

DecodeAudioChannels ==
  /\ codecPc = "pcm"
  /\ IF DecodeChannelsThrows(codecIn.val, codecIn.numChannels)
     THEN codecPc' = "threw" /\ UNCHANGED codecBuf
     ELSE /\ codecBuf' = decodeAudioChannels(codecIn.val, codecIn.numChannels)
          /\ codecPc' = "channels"
  /\ UNCHANGED <<codecIn, codecText, codecBytes, sessVars, svcVars, appVars>>

ChannelNext == DecodeAudioChannels

ChannelSpec == ChannelInit /\ [][ChannelNext]_vars

\* ---------------------------------------- request/response service functions
\* A string is the sequence of its characters. One call is two steps: the
\* function up to its await, and its continuation once the request settles.
SvcTexts ==
  {<<>>, <<" ">>, <<" ", " ">>, <<"h", "i">>, <<" ", "a", " ">>, <<"n", "a", "m">>,
   <<"a", " ", "b">>, <<" ", "k">>}
SvcStrings == {<<>>, <<"x">>, <<"y", "z">>}

\* text.trim()
RECURSIVE Trim(_)
Trim(text) ==
  IF text = <<>> THEN <<>>
  ELSE IF Head(text) = " " THEN Trim(Tail(text))
  ELSE IF text[Len(text)] = " " THEN Trim(SubSeq(text, 1, Len(text) - 1))
  ELSE text

Returned(v) == [kind |-> "returned", value |-> v]

Thrown(e) == [kind |-> "threw", value |-> e]

\* what the awaited _dio.post can settle to: a DioException (no connection,
\* or a status outside 2xx), or a response with a 2xx status whose data is
\* null, a map without 'result', a map whose 'result' is no String, or a map
\* with a String 'result'
HttpOutcomes ==
  {[kind |-> "exception", statusCode |-> c, data |-> "none", result |-> <<>>] :
     c \in {0, 404, 500}}
  \cup {[kind |-> "response", statusCode |-> c, data |-> d, result |-> <<>>] :
          c \in {200, 204}, d \in {"null", "noResult", "nonString"}}
  \cup {[kind |-> "response", statusCode |-> c, data |-> "map", result |-> r] :
          c \in {200, 204}, r \in SvcStrings}

\* the catch block of transliterateText
RethrowTransliterate(text, e) == Thrown(e)

CatchTransliterate(text, e) == Returned(text)

\* transliterateText after its await. response.data['result'] on data that is
\* null, and the return of a value that is no String from a Future<String>
\* function, throw inside the try block.
TransliterateResult(text, r) ==
  IF r.kind = "exception" THEN CatchTransliterate(text, "DioException")
  ELSE IF r.statusCode = 200
  THEN IF r.data = "map" THEN Returned(r.result)
       ELSE IF r.data = "null" THEN CatchTransliterate(text, "NoSuchMethodError")
       ELSE CatchTransliterate(text, "TypeError")
  ELSE Returned(text)

\* what the awaited ai.models.generateContent can settle to: a rejection, or
\* a response with no inline audio data or with data (possibly empty)
SpeechOutcomes ==
  {[kind |-> "rejected", data |-> "none", payload |-> <<>>]}
  \cup {[kind |-> "response", data |-> "absent", payload |-> <<>>]}
  \cup {[kind |-> "response", data |-> "present", payload |-> b] : b \in SvcStrings}

\* generateSpeech after its await: data || "", and the catch block
SpeechResult(r) ==
  IF r.kind = "rejected" THEN Thrown("error")
  ELSE IF r.data = "present" /\ r.payload # <<>> THEN Returned(r.payload)
  ELSE Returned(<<>>)

ServiceInit ==
  /\ ManagerInit /\ CodecIdle /\ AppIdle
  /\ svcPc = "idle" /\ svcText \in SvcTexts
  /\ svcResp = NoResponse /\ svcOut = NoResult

\* ChatService.transliterateText up to its await of _dio.post
TransliterateText ==
  /\ svcPc = "idle"
  /\ svcPc' = "awaitPost"
  /\ UNCHANGED <<svcText, svcResp, svcOut, sessVars, codecVars, appVars>>

PostSettles(r) ==
  /\ svcPc = "awaitPost"
  /\ svcResp' = r
  /\ svcOut' = TransliterateResult(svcText, r)
  /\ svcPc' = "transliterated"
  /\ UNCHANGED <<svcText, sessVars, codecVars, appVars>>

\* generateSpeech up to its await of generateContent, or to its early return
GenerateSpeech ==
  /\ svcPc = "idle"
  /\ IF Trim(svcText) = <<>>
     THEN svcPc' = "spoken" /\ svcOut' = Returned(<<>>)
     ELSE svcPc' = "awaitGenerate" /\ UNCHANGED svcOut
  /\ UNCHANGED <<svcText, svcResp, sessVars, codecVars, appVars>>

GenerateSettles(r) ==
  /\ svcPc = "awaitGenerate"
  /\ svcResp' = r
  /\ svcOut' = SpeechResult(r)
  /\ svcPc' = "spoken"
  /\ UNCHANGED <<svcText, sessVars, codecVars, appVars>>

ServiceNext ==
  \/ TransliterateText
  \/ \E r \in HttpOutcomes : PostSettles(r)
  \/ GenerateSpeech
  \/ \E r \in SpeechOutcomes : GenerateSettles(r)

ServiceSpec == ServiceInit /\ [][ServiceNext]_vars

\* ------------------------------------------------------------- ChatProvider
ChatTexts == {<<>>, <<" ">>, <<"h", "i">>, <<" ", "k">>}

\* ChatProvider.sendMessage up to the await of translateText
sendMessage(msg) ==
  /\ Trim(msg) # <<>>
  /\ nSends < MaxSends
  /\ nSends' = nSends + 1
  /\ messages' = Append(messages, [isUser |-> TRUE, kind |-> "text", text |-> msg])
  /\ isLoading' = TRUE
  /\ errorMessage' = <<>>
  /\ inFlight' = inFlight \cup {nSends + 1}

\* ChatScreen._sendMessage from the send button, which is disabled while
\* isLoading
SendPressed(msg) ==
  /\ ~isLoading
  /\ sendMessage(msg)
  /\ UNCHANGED <<sessVars, codecVars, svcVars, imeVars>>

\* ChatScreen._sendMessage from the text field's onSubmitted
Submitted(msg) ==
  /\ sendMessage(msg)
  /\ UNCHANGED <<sessVars, codecVars, svcVars, imeVars>>

\* translateText of call r returns: the try block's rest, then finally
TranslateReturns(r) ==
  /\ r \in inFlight
  /\ inFlight' = inFlight \ {r}
  /\ messages' = Append(messages, [isUser |-> FALSE, kind |-> "text", text |-> <<"t">>])
  /\ isLoading' = FALSE
  /\ UNCHANGED <<errorMessage, nSends, sessVars, codecVars, svcVars, imeVars>>

\* translateText of call r throws: the catch block, then finally
TranslateThrows(r) ==
  /\ r \in inFlight
  /\ inFlight' = inFlight \ {r}
  /\ errorMessage' = <<"e">>
  /\ messages' = Append(messages, [isUser |-> FALSE, kind |-> "error", text |-> <<"E">>])
  /\ isLoading' = FALSE
  /\ UNCHANGED <<nSends, sessVars, codecVars, svcVars, imeVars>>

ChatNext ==
  \/ \E msg \in ChatTexts : SendPressed(msg)
  \/ \E msg \in ChatTexts : Submitted(msg)
  \/ \E r \in 1..MaxSends : TranslateReturns(r)
  \/ \E r \in 1..MaxSends : TranslateThrows(r)

ChatSpec == Init /\ [][ChatNext]_vars

\* --------------------------------------------- ChatScreen transliteration
KeyChars == {"a", " "}

\* currentText.trimRight()
RECURSIVE TrimRight(_)
TrimRight(t) ==
  IF t = <<>> THEN <<>>
  ELSE IF t[Len(t)] = " " THEN TrimRight(SubSeq(t, 1, Len(t) - 1))
  ELSE t

\* t.split(' ').last
RECURSIVE LastWord(_)
LastWord(t) ==
  IF t = <<>> THEN <<>>
  ELSE IF t[Len(t)] = " " THEN <<>>
  ELSE Append(LastWord(SubSeq(t, 1, Len(t) - 1)), t[Len(t)])

\* the platform inserts a typed character at the cursor
InsertAt(t, o, c) == SubSeq(t, 1, o) \o <<c>> \o SubSeq(t, o + 1, Len(t))

\* the word in the target script, as the transliteration service writes it
Script(word) == [i \in 1..Len(word) |-> IF word[i] = "a" THEN "A" ELSE word[i]]

\* the words a response can carry
ImeWords == SeqsUpTo({"a", "A"}, MaxKeys)

\* transliterateText returns the converted word, or its input on any failure
TransliterateOutcomes(word) == {word, Script(word)}

\* the user types c: the controller's text and selection change, then
\* _onTextChanged and _handleTransliteration up to its await
TypeChar(c) ==
  /\ nKeys < MaxKeys
  /\ nKeys' = nKeys + 1
  /\ LET o == IF selection < 0 THEN Len(controllerText) ELSE selection
         value == InsertAt(controllerText, o, c)
         wordToTransliterate == LastWord(TrimRight(value))
         noted == {[r EXCEPT !.typed = Append(@, c)] : r \in translits}
     IN /\ controllerText' = value
        /\ selection' = o + 1
        /\ translits' =
             IF value[Len(value)] = " " /\ wordToTransliterate # <<>>
             THEN noted \cup {[id |-> nKeys + 1, currentText |-> value,
                               word |-> wordToTransliterate, typed |-> <<>>]}
             ELSE noted
  /\ UNCHANGED <<sessVars, codecVars, svcVars, chatVars>>

\* the user puts the cursor at offset o
MoveCursor(o) ==
  /\ o \in 0..Len(controllerText)
  /\ o # selection
  /\ selection' = o
  /\ UNCHANGED <<controllerText, translits, nKeys>>
  /\ UNCHANGED <<sessVars, codecVars, svcVars, chatVars>>

\* transliterateText of request r returns convertedWord: the rest of
\* _handleTransliteration. substring(0, selection.baseOffset) throws when the
\* offset is -1 or beyond currentText, and the catch block ignores it.
TransliterateSettles(id, convertedWord) ==
  \E r \in translits :
    /\ r.id = id
    /\ convertedWord \in TransliterateOutcomes(r.word)
    /\ translits' = translits \ {r}
    /\ LET newText ==
             SubSeq(r.currentText, 1, Len(r.currentText) - Len(r.word) - 1)
               \o convertedWord \o <<" ">>
       IN IF convertedWord # r.word /\ selection \in 0..Len(r.currentText)
          THEN /\ controllerText' = newText
               /\ selection' = Len(newText)
          ELSE UNCHANGED <<controllerText, selection>>
  /\ UNCHANGED nKeys
  /\ UNCHANGED <<sessVars, codecVars, svcVars, chatVars>>

ImeNext ==
  \/ \E c \in KeyChars : TypeChar(c)
  \/ \E o \in 0..MaxKeys : MoveCursor(o)
  \/ \E id \in 1..MaxKeys, w \in ImeWords : TransliterateSettles(id, w)

ImeSpec == Init /\ [][ImeNext]_vars

\* ------------------------------------------------ capture and transport claims
\* C11: when the promise returned by ai.live.connect rejects, the onError
\* callback is called for that connect()
C11_RejectionReported ==
  \A k \in Attempts : sess[k] = "rejected" => onErrorCalled[k]

\* C12: once the transport's onerror has fired on an established session, the
\* error callback was called, the microphone tracks are stopped, both audio
\* contexts are closed and no frame captured after the error is sent
C12_TransportErrorAborts ==
  \A k \in Attempts : transportErr[k] =>
    /\ onErrorCalled[k]
    /\ ~micLive[k] /\ ~inOpen[k] /\ ~outOpen[k]
    /\ \A i \in DOMAIN sent : sent[i].session = k => ~sent[i].afterErr

\* C13 as stated: the frames reach sendRealtimeInput in the order of their
\* onaudioprocess callbacks
C13_SentInCaptureOrder ==
  \A i, j \in DOMAIN sent : i < j => sent[i].frame < sent[j].frame

\* C13, amended: the frames sent to one session reach its sendRealtimeInput
\* in the order of their onaudioprocess callbacks, those held on the pending
\* session promise included
C13_SentInCaptureOrderPerSession ==
  \A i, j \in DOMAIN sent :
    i < j /\ sent[i].session = sent[j].session => sent[i].frame < sent[j].frame

\* two frames held on the same pending promise were sent when it resolved
C13_Witness ==
  \E i, j \in DOMAIN sent :
    /\ i < j /\ sent[i].session = sent[j].session
    /\ sent[i].held /\ sent[j].held

C15_DecodeErrorContained ==
  [][pending # <<>> /\ pending' = Tail(pending) =>
       IF pending[1].dur = BadAudio
       THEN /\ started' = started
            /\ ~pending[1].intr =>
                 sources' = sources /\ nextStartTime' = nextStartTime
            /\ pending[1].intr => sources' = {}
       ELSE outputContext # Null =>
              /\ Len(started') = Len(started) + 1
              /\ started'[Len(started')].start =
                   ClampedStart(currentTime', nextStartTime)
              /\ started'[Len(started')].arr = pending[1].arr]_vars

\* a chunk was started after an earlier chunk's decode had thrown while a
\* source was playing, and that source is still tracked
C15_Witness ==
  \E j \in DOMAIN started, a \in failedArr :
    /\ a < started[j].arr
    /\ \E i \in DOMAIN started : started[i].arr < a /\ i \in sources

\* ------------------------------------------------------------- codec claims
Abs(x) == IF x < 0 THEN -x ELSE x

\* C16: decode(encode(b)) is b, for every byte array b
C16_Base64RoundTrip ==
  codecIn.kind = "bytes" /\ codecPc \in {"bytes", "decoded", "threw"}
    => codecBytes = codecIn.val

\* a byte array with a byte above 127 and a length that needs padding went
\* through encode and decode
C16_Witness ==
  /\ codecIn.kind = "bytes" /\ codecPc = "bytes"
  /\ Len(codecIn.val) = 2 /\ codecIn.val[1] = 255 /\ codecIn.val[2] = 128
  /\ codecText[4] = Pad

\* C17: a sample s in [-1, 1] encoded by createPcmBlob and decoded by
\* base64ToUint8Array and decodeAudioData comes back within 1/32768 of s
C17_QuantizationBound ==
  codecIn.kind = "samples" /\ codecPc = "decoded" =>
    \A i \in DOMAIN codecIn.val :
      i \in DOMAIN codecBuf /\
      Abs(SubSteps * codecBuf[i] - codecIn.val[i]) <= SubSteps

\* C18 as stated: a frame of n samples, n >= 0, comes back as a buffer of n
\* samples
C18_FrameCountPreserved ==
  codecIn.kind = "samples" =>
    /\ codecPc # "threw"
    /\ codecPc = "decoded" => Len(codecBuf) = Len(codecIn.val)

\* C18, amended: a frame of n samples, n >= 1, comes back as a buffer of n
\* samples
C18_FrameCountPreservedNonEmpty ==
  codecIn.kind = "samples" /\ Len(codecIn.val) >= 1 =>
    /\ codecPc # "threw"
    /\ codecPc = "decoded" => Len(codecBuf) = Len(codecIn.val)

\* a frame of two samples was encoded and decoded
C18_Witness ==
  /\ codecIn.kind = "samples" /\ codecPc = "decoded"
  /\ Len(codecIn.val) = 2 /\ Len(codecBytes) = 4 /\ Len(codecBuf) = 2

\* ----------------------------------------------------------- service claims
\* C19: transliterateText never throws, and on a status other than 200, on an
\* exception of the request or on a malformed response it returns the text
\* it was given
C19_TransliterateFailsOpen ==
  svcPc = "transliterated" =>
    /\ svcOut.kind = "returned"
    /\ (svcResp.kind = "exception" \/ svcResp.statusCode # 200
          \/ svcResp.data # "map") => svcOut.value = svcText

\* a 200 response without a usable 'result' was answered with the text
C19_Witness ==
  /\ svcPc = "transliterated" /\ svcText = <<"h", "i">>
  /\ svcResp.kind = "response" /\ svcResp.statusCode = 200
  /\ svcResp.data = "noResult"
  /\ svcOut = Returned(svcText)

\* C20: generateSpeech does not throw: it returns the empty string when the
\* request fails, and a non-empty result is the audio payload of the response
C20_SpeechReturnsEmptyOnFailure ==
  svcPc = "spoken" =>
    /\ svcOut.kind = "returned"
    /\ svcResp.kind = "rejected" => svcOut.value = <<>>
    /\ svcOut.value # <<>> =>
         svcResp.kind = "response" /\ svcResp.data = "present"
         /\ svcOut.value = svcResp.payload

\* ------------------------------------------------ concurrency of the session
\* C21: the view made one connect() call and then unmounted (its cleanup
\* calls disconnect()); once getUserMedia and the transport handshake have
\* settled, no microphone track is live, no transport session is open and no
\* audio context is open or held by the manager
C21_TeardownCompleteOnceSettled ==
  (/\ ~mounted /\ nConnects = 1
   /\ pc[1] # "awaitMic" /\ sess[1] \notin {"pending", "opened"}) =>
    /\ ~micLive[1] /\ sess[1] # "resolved"
    /\ ~inOpen[1] /\ ~outOpen[1]
    /\ mediaStream = Null /\ currentSessionPromise = Null
    /\ inputContext = Null /\ outputContext = Null

C23_NoStartAfterInterruption ==
  \A j \in DOMAIN started : started[j].arr \notin heldAtInt

C25_VariantStartNotBeforeClock ==
  \A j \in DOMAIN started : started[j].start >= started[j].now

\* C26: when connect() has reported a failure through onError, isActive is
\* false once toggleSession has completed
C26_FailedConnectLeavesInactive ==
  [][\A k \in Attempts :
       (pc[k] = "awaitMic" /\ pc'[k] = "failed") => ~isActive']_vars

\* C27: a source enters sources only in the step that starts it, leaves it
\* only when its onended fires or the whole set is cleared, is out of the set
\* once stopped or ended, and an onended of a source no longer in the set
\* leaves the set as it is
C27_SourcesTracksPlaying ==
  [][/\ \A s \in Chunks' \ Chunks : s \in sources' \/ sources' = {}
     /\ \A s \in sources' : s \in sources \/ s \notin Chunks
     /\ \A s \in sources \ sources' : s \in ended' \/ sources' = {}
     /\ \A s \in ended' \ ended : sources' = sources \ {s}
     /\ \A s \in ended' \cup stopCalled' : s \notin sources']_vars

\* an onended fired for a source that an interruption had stopped and
\* cleared, while a later source is playing
C27_Witness ==
  \E s \in ended \cap stopCalled : \E r \in sources : r > s

\* C28: decodeAudioData returns a buffer only for a byte length that is a
\* multiple of 2 * numChannels
C28_MalformedLengthRejected ==
  codecPc = "channels" => Len(codecIn.val) % (2 * codecIn.numChannels) = 0

\* C29: isLoading is true exactly while a sendMessage call awaits its
\* translation
C29_LoadingWhileInFlight ==
  isLoading <=> inFlight # {}

\* C30: when the response of a transliteration request replaces the
\* controller's text, the new text is the text the request captured with the
\* one word replaced, plus every character typed since the request was issued
C30_TypedTextPreserved ==
  [][\A r \in translits :
       (r.id \notin {q.id : q \in translits'} /\ controllerText' # controllerText)
         => Len(controllerText') =
              Len(r.currentText) - Len(r.word) + Len(Script(r.word))
                + Len(r.typed)]_vars
====
